---------------------------- MODULE Spec2Model ----------------------------
(***************************************************************************)
(* Model of training/train_sentiment_model.py: a module-level script that  *)
(* splits a literal dataset, fits a TF-IDF vectorizer and a logistic       *)
(* regression, evaluates, persists two pickles, runs four demo predictions *)
(* and optionally exports the classifier to ONNX.                          *)
(*                                                                         *)
(* The script is one thread of statements; pc is the statement about to    *)
(* run.  Values the numerical library computes in floating point (the RNG  *)
(* permutation, the fitted weights, hence predictions and decision scores) *)
(* are inputs of the step that produces them, drawn from bounded sets.     *)
(* The operating system's answers (a file cannot be opened, a write fails, *)
(* the converter package is absent) are inputs as well.                    *)
(***************************************************************************)
EXTENDS Integers, Sequences, FiniteSets, TLC

(* ------------------------------ bounds --------------------------------- *)

\* The split of the main specification takes its test rows from the windows
\* 0..MaxFold of n_test consecutive rows (row w*n_test and the n_test-1 after it).
MaxFold == 3

\* Decision scores of the demo predictions range over -MaxScore..MaxScore.
MaxScore == 2

(* ------------------------- program constants --------------------------- *)

\* test_size=0.2, in tenths
test_size_tenths == 2

\* max_features=1000
max_features == 1000

\* min_df=1
min_df == 1

\* max_df=0.8, in tenths
max_df_tenths == 8

\* ngram_range=(1, 2)
ngram_min == 1

ngram_max == 2

(* ------------------------------- data ---------------------------------- *)

training_data ==
  <<
     <<"This video is amazing! Great content!", 1>>,
     <<"Love it! Very helpful tutorial.", 1>>,
     <<"Excellent work, keep it up!", 1>>,
     <<"Best video I've seen on this topic", 1>>,
     <<"Thank you for sharing this!", 1>>,
     <<"Very informative and well explained", 1>>,
     <<"Great quality content, subscribed!", 1>>,
     <<"This helped me a lot, thanks!", 1>>,
     <<"Perfect! Exactly what I needed", 1>>,
     <<"Outstanding video, loved it", 1>>,
     <<"Brilliant explanation, thank you!", 1>>,
     <<"This is exactly what I was looking for", 1>>,
     <<"Awesome content, very useful", 1>>,
     <<"Really appreciate this tutorial", 1>>,
     <<"Fantastic work, well done!", 1>>,
     <<"This is terrible, waste of time", 0>>,
     <<"Boring content, don't recommend", 0>>,
     <<"Not helpful at all", 0>>,
     <<"Disliked, very poor quality", 0>>,
     <<"This video is misleading", 0>>,
     <<"Awful content, unsubscribed", 0>>,
     <<"Worst tutorial ever", 0>>,
     <<"Complete waste of my time", 0>>,
     <<"Disappointed with this video", 0>>,
     <<"Horrible, do not watch", 0>>,
     <<"This is useless information", 0>>,
     <<"Terrible quality, very bad", 0>>,
     <<"Not worth watching at all", 0>>,
     <<"I regret watching this", 0>>,
     <<"Poorly made and unhelpful", 0>>
  >>

test_comments ==
  <<
     "This is great!",
     "This is terrible!",
     "Amazing tutorial, thanks!",
     "Waste of time, very bad"
  >>

build_tokenizer(doc) ==
  CASE
    doc = "This video is amazing! Great content!" ->
         <<"this", "video", "is", "amazing", "great", "content">>
    [] doc = "Love it! Very helpful tutorial." ->
         <<"love", "it", "very", "helpful", "tutorial">>
    [] doc = "Excellent work, keep it up!" ->
         <<"excellent", "work", "keep", "it", "up">>
    [] doc = "Best video I've seen on this topic" ->
         <<"best", "video", "ve", "seen", "on", "this", "topic">>
    [] doc = "Thank you for sharing this!" ->
         <<"thank", "you", "for", "sharing", "this">>
    [] doc = "Very informative and well explained" ->
         <<"very", "informative", "and", "well", "explained">>
    [] doc = "Great quality content, subscribed!" ->
         <<"great", "quality", "content", "subscribed">>
    [] doc = "This helped me a lot, thanks!" ->
         <<"this", "helped", "me", "lot", "thanks">>
    [] doc = "Perfect! Exactly what I needed" ->
         <<"perfect", "exactly", "what", "needed">>
    [] doc = "Outstanding video, loved it" ->
         <<"outstanding", "video", "loved", "it">>
    [] doc = "Brilliant explanation, thank you!" ->
         <<"brilliant", "explanation", "thank", "you">>
    [] doc = "This is exactly what I was looking for" ->
         <<"this", "is", "exactly", "what", "was", "looking", "for">>
    [] doc = "Awesome content, very useful" ->
         <<"awesome", "content", "very", "useful">>
    [] doc = "Really appreciate this tutorial" ->
         <<"really", "appreciate", "this", "tutorial">>
    [] doc = "Fantastic work, well done!" ->
         <<"fantastic", "work", "well", "done">>
    [] doc = "This is terrible, waste of time" ->
         <<"this", "is", "terrible", "waste", "of", "time">>
    [] doc = "Boring content, don't recommend" ->
         <<"boring", "content", "don", "recommend">>
    [] doc = "Not helpful at all" ->
         <<"not", "helpful", "at", "all">>
    [] doc = "Disliked, very poor quality" ->
         <<"disliked", "very", "poor", "quality">>
    [] doc = "This video is misleading" ->
         <<"this", "video", "is", "misleading">>
    [] doc = "Awful content, unsubscribed" ->
         <<"awful", "content", "unsubscribed">>
    [] doc = "Worst tutorial ever" ->
         <<"worst", "tutorial", "ever">>
    [] doc = "Complete waste of my time" ->
         <<"complete", "waste", "of", "my", "time">>
    [] doc = "Disappointed with this video" ->
         <<"disappointed", "with", "this", "video">>
    [] doc = "Horrible, do not watch" ->
         <<"horrible", "do", "not", "watch">>
    [] doc = "This is useless information" ->
         <<"this", "is", "useless", "information">>
    [] doc = "Terrible quality, very bad" ->
         <<"terrible", "quality", "very", "bad">>
    [] doc = "Not worth watching at all" ->
         <<"not", "worth", "watching", "at", "all">>
    [] doc = "I regret watching this" ->
         <<"regret", "watching", "this">>
    [] doc = "Poorly made and unhelpful" ->
         <<"poorly", "made", "and", "unhelpful">>
    [] doc = "This is great!" ->
         <<"this", "is", "great">>
    [] doc = "This is terrible!" ->
         <<"this", "is", "terrible">>
    [] doc = "Amazing tutorial, thanks!" ->
         <<"amazing", "tutorial", "thanks">>
    [] doc = "Waste of time, very bad" ->
         <<"waste", "of", "time", "very", "bad">>

\* df = pd.DataFrame(training_data, columns=['text', 'label']); rows are
\* labelled 0..n-1 as pandas labels them.
n_samples == Len(training_data)

RowIndex == 0 .. (n_samples - 1)

df_text == [i \in RowIndex |-> training_data[i + 1][1]]

df_label == [i \in RowIndex |-> training_data[i + 1][2]]

Labels == {0, 1}

(* --------------------------- pure helpers ------------------------------ *)

CeilDiv(a, b) == (a + b - 1) \div b

\* The word n-grams of a document for ngram_range=(ngram_min, ngram_max):
\* every run of n consecutive tokens, ngram_min <= n <= ngram_max.
WordNgrams(doc) ==
  LET tokens == build_tokenizer(doc)
  IN  {SubSeq(tokens, i, i + n - 1) :
         <<i, n>> \in {p \in (1 .. Len(tokens)) \X (ngram_min .. ngram_max) :
                         p[1] + p[2] - 1 <= Len(tokens)}}

\* Number of occurrences of a term in a document.
TermCount(term, doc) ==
  LET tokens == build_tokenizer(doc)
      n == Len(term)
  IN  Cardinality({i \in 1 .. Len(tokens) :
                     i + n - 1 <= Len(tokens) /\ SubSeq(tokens, i, i + n - 1) = term})

RECURSIVE SumOver(_, _)
SumOver(f, S) ==
  IF S = {} THEN 0
  ELSE LET x == CHOOSE x \in S : TRUE IN f[x] + SumOver(f, S \ {x})

\* The sizes train_test_split gives the subsets for test_size=0.2:
\* n_test = ceil(test_size * n), n_train = n - n_test.
n_test == CeilDiv(test_size_tenths * n_samples, 10)

n_train == n_samples - n_test

\* The same with the labels taken one row further than the texts.
train_test_split_unpaired(X, y, ind_test, ind_train) ==
  [X_train |-> [i \in ind_train |-> X[i]],
   X_test  |-> [i \in ind_test |-> X[i]],
   y_train |-> [i \in ind_train |-> y[(i + 1) % Cardinality(DOMAIN y)]],
   y_test  |-> [i \in ind_test |-> y[(i + 1) % Cardinality(DOMAIN y)]]]

\* The same with the two subsets handed out in the other order.
train_test_split_swapped(X, y, ind_test, ind_train) ==
  [X_train |-> [i \in ind_test |-> X[i]],
   X_test  |-> [i \in ind_train |-> X[i]],
   y_train |-> [i \in ind_test |-> y[i]],
   y_test  |-> [i \in ind_train |-> y[i]]]

\* train_test_split(df['text'], df['label'], test_size=0.2, random_state=42).
\* The seeded generator yields a permutation of the rows, whose first n_test
\* entries are the test rows (ind_test) and whose next n_train entries are
\* the training rows (ind_train); both arrays are indexed with the same rows.
\* Series keep their row labels, so each output is a function of the row
\* label, and of the permutation only these two sets of rows matter.
train_test_split(X, y, ind_test, ind_train) ==
  [X_train |-> [i \in ind_train |-> X[i]],
   X_test  |-> [i \in ind_test |-> X[i]],
   y_train |-> [i \in ind_train |-> y[i]],
   y_test  |-> [i \in ind_test |-> y[i]]]

\* Window w of the permutations the main specification draws from: the
\* rotation of the rows by w*n_test.
FoldTest(w) == {((w * n_test) + j) % n_samples : j \in 0 .. (n_test - 1)}

FoldTrain(w) == {((w * n_test) + j) % n_samples : j \in n_test .. (n_test + n_train - 1)}

\* The increasing sequences of k rows among the first n: every set of k rows,
\* once each.
RECURSIVE IncreasingRows(_, _)
IncreasingRows(k, n) ==
  IF k = 0 THEN {<<>>}
  ELSE {Append(s, x) : <<s, x>> \in
          {p \in IncreasingRows(k - 1, n) \X (0 .. (n - 1)) :
             /\ p[2] >= k - 1
             /\ (k > 1 => p[2] > p[1][k - 1])}}

\* TfidfVectorizer._limit_features: keep the terms whose document frequency
\* lies in [min_df, max_df * n_doc], then at most max_features of them, those
\* of highest total term frequency.
LimitFeatures(docs) ==
  LET n_doc == Cardinality(DOMAIN docs)
      terms == UNION {WordNgrams(docs[i]) : i \in DOMAIN docs}
      dfreq(t) == Cardinality({i \in DOMAIN docs : t \in WordNgrams(docs[i])})
      kept == {t \in terms : dfreq(t) >= min_df /\ dfreq(t) * 10 <= max_df_tenths * n_doc}
      tfs == [t \in kept |-> SumOver([i \in DOMAIN docs |-> TermCount(t, docs[i])], DOMAIN docs)]
  IN  IF Cardinality(kept) <= max_features THEN kept
      ELSE CHOOSE top \in SUBSET kept :
             /\ Cardinality(top) = max_features
             /\ \A t \in top : \A u \in kept \ top : tfs[t] >= tfs[u]

\* vectorizer.transform(docs): one row per document; a row's nonzero columns
\* are the vocabulary terms that occur in the document, every other term of
\* the document is dropped.  (The weights are floating point and are not
\* modelled; the rows are kept by their support.)
Transform(vocabulary, docs) ==
  [i \in DOMAIN docs |-> WordNgrams(docs[i]) \cap vocabulary]

(* ------------------------- the vectorizer object ----------------------- *)

\* vectorizer = TfidfVectorizer(max_features=1000, min_df=1, max_df=0.8,
\* ngram_range=(1, 2)): not fitted, no vocabulary.  calls lists the methods
\* invoked on it so far and fit_docs the documents of its last fit.
TfidfVectorizer ==
  [fitted |-> FALSE, vocabulary |-> {}, calls |-> <<>>, fit_docs |-> <<>>]

\* vectorizer.fit_transform(docs): learns the vocabulary from docs (replacing
\* any earlier one) and returns docs' matrix under it.
fit_transform(vec, docs) ==
  LET vocabulary == LimitFeatures(docs)
  IN  [vec |-> [fitted |-> TRUE, vocabulary |-> vocabulary,
                calls |-> Append(vec.calls, "fit_transform"), fit_docs |-> docs],
       matrix |-> [shape |-> <<Cardinality(DOMAIN docs), Cardinality(vocabulary)>>,
                   rows |-> Transform(vocabulary, docs)]]

\* A transform that refits the vectorizer on the documents it is given.
transform_refit(vec, docs) == fit_transform(vec, docs)

\* vectorizer.transform(docs): the vocabulary is read, never written.
transform(vec, docs) ==
  [vec |-> [vec EXCEPT !.calls = Append(@, "transform")],
   matrix |-> [shape |-> <<Cardinality(DOMAIN docs), Cardinality(vec.vocabulary)>>,
               rows |-> Transform(vec.vocabulary, docs)]]

NoMatrix == [shape |-> <<0, 0>>, rows |-> <<>>]

(* --------------------------- the classifier ---------------------------- *)

\* model = LogisticRegression(C=1.0, max_iter=1000, random_state=42)
LogisticRegression == [fitted |-> FALSE, classes_ |-> {}, n_features_in_ |-> 0]

\* model.fit(X, y): the classes are the labels that occur in y.
model_fit(X, y) ==
  [fitted |-> TRUE, classes_ |-> {y[i] : i \in DOMAIN y}, n_features_in_ |-> X.shape[2]]

\* model.predict on one row: the class whose index is (decision score > 0).
predict_score(score) == IF score > 0 THEN 1 ELSE 0

\* model.predict_proba on one row: the pair (1 - p, p) with p the logistic
\* function of the decision score, here on the grid of 2*MaxScore + 1 points:
\* p is monotone in the score and 1/2 at score 0.  The entries are in units
\* of 1/ProbUnit.
ProbUnit == 2 * MaxScore

predict_proba_score(score) ==
  [c \in Labels |-> IF c = 1 THEN MaxScore + score ELSE MaxScore - score]

(* ----------------------------- evaluation ------------------------------ *)

\* accuracy_score(y_true, y_pred): the fraction of rows predicted correctly,
\* kept as correct / total.
accuracy_score(y_true, y_pred) ==
  [correct |-> Cardinality({i \in DOMAIN y_true : y_true[i] = y_pred[i]}),
   total |-> Cardinality(DOMAIN y_true)]

\* unique_labels(y_true, y_pred): the labels that occur in either.
unique_labels(y_true, y_pred) ==
  {y_true[i] : i \in DOMAIN y_true} \cup {y_pred[i] : i \in DOMAIN y_pred}

\* The labels in increasing order, indexed from 0.
SortedLabels(labels) ==
  [k \in 0 .. (Cardinality(labels) - 1) |->
     CHOOSE l \in labels : Cardinality({m \in labels : m < l}) = k]

\* confusion_matrix(y_true, y_pred) with no labels argument: one row and one
\* column per label of unique_labels, in increasing order; cell [i][j] counts
\* the rows of true label i predicted as label j.
confusion_matrix(y_true, y_pred) ==
  LET labels == SortedLabels(unique_labels(y_true, y_pred))
  IN  [i \in DOMAIN labels |-> [j \in DOMAIN labels |->
         Cardinality({r \in DOMAIN y_true : y_true[r] = labels[i] /\ y_pred[r] = labels[j]})]]

\* classification_report(y_true, y_pred, target_names=[...]) with no labels
\* argument: raises ValueError unless unique_labels has as many labels as
\* target_names; otherwise one line per class (true positives, predicted
\* count and support, from which precision, recall and F1 are printed).
target_names == <<"Negative", "Positive">>

classification_report_raises(y_true, y_pred) ==
  Cardinality(unique_labels(y_true, y_pred)) # Len(target_names)

classification_report(y_true, y_pred) ==
  LET labels == SortedLabels(unique_labels(y_true, y_pred))
  IN  [k \in DOMAIN labels |->
         [name |-> target_names[k + 1],
          tp |-> Cardinality({r \in DOMAIN y_true : y_true[r] = labels[k] /\ y_pred[r] = labels[k]}),
          predicted |-> Cardinality({r \in DOMAIN y_pred : y_pred[r] = labels[k]}),
          support |-> Cardinality({r \in DOMAIN y_true : y_true[r] = labels[k]})]]

(* ------------------------------- files --------------------------------- *)

MODEL_PKL == "sentiment_model.pkl"

VECTORIZER_PKL == "sentiment_vectorizer.pkl"

MODEL_ONNX == "sentiment_model.onnx"

\* A file holds nothing ("absent"), what an earlier run left ("old"), the
\* complete serialization this run wrote ("model", "vectorizer", "onnx"), or
\* an incomplete one ("truncated": opened for writing, not fully written).
Files == {MODEL_PKL, VECTORIZER_PKL, MODEL_ONNX}

\* What the operating system answers to a write of a whole file: the file is
\* written; or it cannot be opened (it is left as it was); or it is opened,
\* which empties it, and the write then fails.
WriteOutcomes == {"ok", "open_fails", "write_fails"}

\* A dump that leaves a file that is already there alone.
joblib_dump_keep_existing(files, filename, content, outcome) ==
  CASE outcome = "ok" /\ files[filename] = "absent" -> [files EXCEPT ![filename] = content]
    [] outcome = "write_fails" -> [files EXCEPT ![filename] = "truncated"]
    [] OTHER -> files

\* joblib.dump(value, filename): open(filename, 'wb') and pickle into it.
joblib_dump(files, filename, content, outcome) ==
  CASE outcome = "ok" -> [files EXCEPT ![filename] = content]
    [] outcome = "open_fails" -> files
    [] outcome = "write_fails" -> [files EXCEPT ![filename] = "truncated"]

\* A bare except clause, and no except clause.
ExceptCatchesAll(exc) == TRUE

ExceptCatchesNone(exc) == FALSE

\* except ImportError: the clause catches ImportError and nothing else.
ExceptImportError(exc) == exc = "ImportError"

NoException == [exc |-> "none", at |-> "none"]

(* ------------------------------- state --------------------------------- *)

VARIABLES
  pc,                  \* the statement about to run; "done" and "failed" are final
  X_train, X_test,     \* texts by row label
  y_train, y_test,     \* labels by row label
  vectorizer,          \* the TfidfVectorizer object
  X_train_tfidf, X_test_tfidf,
  model,               \* the LogisticRegression object
  y_pred,              \* predictions by test row label
  accuracy,            \* accuracy_score's result, <<>> before it is computed
  report,              \* classification_report's result, <<>> before
  cm,                  \* confusion_matrix's result, <<>> before
  fs,                  \* the working directory: what each file holds
  fs_before,           \* the working directory as the run found it
  skl2onnx_installed,  \* whether the export converter can be imported
  stdout,              \* what was printed, as message tags
  k,                   \* number of demo comments handled
  features, prediction, probability, sentiment, confidence,
  raised,              \* the exception raised, and the statement raising it
  trace                \* the statements executed, in order

splitVars == <<X_train, X_test, y_train, y_test>>

fitVars == <<vectorizer, X_train_tfidf, X_test_tfidf, model>>

evalVars == <<y_pred, accuracy, report, cm>>

demoVars == <<k, features, prediction, probability, sentiment, confidence>>

envVars == <<fs_before, skl2onnx_installed>>

vars == <<pc, splitVars, fitVars, evalVars, demoVars, envVars, fs, stdout, raised, trace>>

\* Before the run: nothing computed; any of the three files may be left from
\* an earlier run; the converter may or may not be installed.
InitRun ==
  /\ pc = "split"
  /\ X_train = <<>> /\ X_test = <<>> /\ y_train = <<>> /\ y_test = <<>>
  /\ vectorizer = TfidfVectorizer
  /\ X_train_tfidf = NoMatrix /\ X_test_tfidf = NoMatrix
  /\ model = LogisticRegression
  /\ y_pred = <<>> /\ accuracy = <<>> /\ report = <<>> /\ cm = <<>>
  /\ stdout = <<>>
  /\ k = 0
  /\ features = NoMatrix /\ prediction = 0 /\ probability = <<>>
  /\ sentiment = "" /\ confidence = 0
  /\ raised = NoException
  /\ trace = <<>>

Init ==
  /\ InitRun
  /\ fs_before \in [Files -> {"absent", "old"}]
  /\ fs = fs_before
  /\ skl2onnx_installed \in BOOLEAN

\* An uncaught exception ends the run where it is raised.
Uncaught(exc) ==
  /\ pc' = "failed"
  /\ raised' = [exc |-> exc, at |-> pc]

Step(next) ==
  /\ pc' = next
  /\ raised' = raised

(* ------------------------------ actions -------------------------------- *)

\* Lines 68-73: split, print the two sizes.
SplitInto(ind_test, ind_train) ==
  LET s == train_test_split(df_text, df_label, ind_test, ind_train)
  IN  /\ pc = "split"
      /\ X_train' = s.X_train /\ X_test' = s.X_test
      /\ y_train' = s.y_train /\ y_test' = s.y_test
      /\ stdout' = stdout \o <<"Training samples", "Test samples">>
      /\ trace' = Append(trace, pc)
      /\ Step("fit_transform")
      /\ UNCHANGED <<fitVars, evalVars, demoVars, envVars, fs>>

Split ==
  /\ pc = "split"
  /\ \E w \in 0 .. MaxFold : SplitInto(FoldTest(w), FoldTrain(w))

\* Line 83: X_train_tfidf = vectorizer.fit_transform(X_train)
FitTransform ==
  LET r == fit_transform(vectorizer, X_train)
  IN  /\ pc = "fit_transform"
      /\ vectorizer' = r.vec
      /\ X_train_tfidf' = r.matrix
      /\ trace' = Append(trace, pc)
      /\ Step("transform")
      /\ UNCHANGED <<splitVars, X_test_tfidf, model, evalVars, demoVars, envVars, fs, stdout>>

\* Lines 84-86: X_test_tfidf = vectorizer.transform(X_test); print the shape.
TransformTest ==
  LET r == transform(vectorizer, X_test)
  IN  /\ pc = "transform"
      /\ vectorizer' = r.vec
      /\ X_test_tfidf' = r.matrix
      /\ stdout' = Append(stdout, "Feature vector shape")
      /\ trace' = Append(trace, pc)
      /\ Step("fit")
      /\ UNCHANGED <<splitVars, X_train_tfidf, model, evalVars, demoVars, envVars, fs>>

\* Lines 89-95: model.fit(X_train_tfidf, y_train); the solver needs two
\* classes in y_train and raises ValueError otherwise.
Fit ==
  /\ pc = "fit"
  /\ trace' = Append(trace, pc)
  /\ IF Cardinality({y_train[i] : i \in DOMAIN y_train}) < 2
       THEN /\ Uncaught("ValueError")
            /\ UNCHANGED model
       ELSE /\ model' = model_fit(X_train_tfidf, y_train)
            /\ Step("predict")
  /\ UNCHANGED <<splitVars, vectorizer, X_train_tfidf, X_test_tfidf, evalVars, demoVars,
                 envVars, fs, stdout>>

\* Line 98: y_pred = model.predict(X_test_tfidf): one of the fitted classes
\* per test row.
Predict ==
  /\ pc = "predict"
  /\ \E p \in [DOMAIN X_test_tfidf.rows -> model.classes_] : y_pred' = p
  /\ trace' = Append(trace, pc)
  /\ Step("accuracy")
  /\ UNCHANGED <<splitVars, fitVars, accuracy, report, cm, demoVars, envVars, fs, stdout>>

\* Lines 99-101: accuracy = accuracy_score(y_test, y_pred); print it.
Accuracy ==
  /\ pc = "accuracy"
  /\ accuracy' = accuracy_score(y_test, y_pred)
  /\ stdout' = Append(stdout, "Model Accuracy")
  /\ trace' = Append(trace, pc)
  /\ Step("report")
  /\ UNCHANGED <<splitVars, fitVars, y_pred, report, cm, demoVars, envVars, fs>>

\* Lines 102-103: print the classification report.
Report ==
  /\ pc = "report"
  /\ trace' = Append(trace, pc)
  /\ IF classification_report_raises(y_test, y_pred)
       THEN /\ Uncaught("ValueError")
            /\ stdout' = Append(stdout, "Classification Report:")
            /\ UNCHANGED report
       ELSE /\ report' = classification_report(y_test, y_pred)
            /\ stdout' = stdout \o <<"Classification Report:", "report">>
            /\ Step("confusion")
  /\ UNCHANGED <<splitVars, fitVars, y_pred, accuracy, cm, demoVars, envVars, fs>>

\* Lines 105-106: print the confusion matrix.
Confusion ==
  /\ pc = "confusion"
  /\ cm' = confusion_matrix(y_test, y_pred)
  /\ stdout' = stdout \o <<"Confusion Matrix:", "matrix">>
  /\ trace' = Append(trace, pc)
  /\ Step("dump_model")
  /\ UNCHANGED <<splitVars, fitVars, y_pred, accuracy, report, demoVars, envVars, fs>>

\* Line 109: joblib.dump(model, 'sentiment_model.pkl')
DumpModel ==
  /\ pc = "dump_model"
  /\ trace' = Append(trace, pc)
  /\ \E outcome \in WriteOutcomes :
       /\ fs' = joblib_dump(fs, MODEL_PKL, "model", outcome)
       /\ IF outcome = "ok" THEN Step("dump_vectorizer") ELSE Uncaught("OSError")
  /\ UNCHANGED <<splitVars, fitVars, evalVars, demoVars, envVars, stdout>>

\* Lines 110-123: joblib.dump(vectorizer, 'sentiment_vectorizer.pkl'), then
\* the two "saved" messages and the heading of the demo predictions.
DumpVectorizer ==
  /\ pc = "dump_vectorizer"
  /\ trace' = Append(trace, pc)
  /\ \E outcome \in WriteOutcomes :
       /\ fs' = joblib_dump(fs, VECTORIZER_PKL, "vectorizer", outcome)
       /\ IF outcome = "ok"
            THEN /\ Step("demo")
                 /\ stdout' = stdout \o <<"Model saved", "Vectorizer saved",
                                          "--- Test Predictions ---">>
            ELSE /\ Uncaught("OSError")
                 /\ UNCHANGED stdout
  /\ UNCHANGED <<splitVars, fitVars, evalVars, demoVars, envVars>>

\* The probability of the class that was not predicted, times 100.
ConfidenceOfOtherClass(proba, pred) == proba[1 - pred] * 100

\* probability[prediction] * 100, in units of 1/ProbUnit percent.
Confidence(proba, pred) == proba[pred] * 100

\* "Positive" if prediction == 1 else "Negative"
Sentiment(pred) == IF pred = 1 THEN "Positive" ELSE "Negative"

\* Lines 124-133: one pass of the loop over test_comments.  The decision
\* score of the comment is whatever the fitted weights give.
Demo ==
  /\ pc = "demo"
  /\ k < Len(test_comments)
  /\ \E score \in (0 - MaxScore) .. MaxScore :
       LET comment == test_comments[k + 1]
           r == transform(vectorizer, [i \in {0} |-> comment])
           pred == predict_score(score)
           proba == predict_proba_score(score)
       IN  /\ vectorizer' = r.vec
           /\ features' = r.matrix
           /\ prediction' = pred
           /\ probability' = proba
           /\ sentiment' = Sentiment(pred)
           /\ confidence' = Confidence(proba, pred)
  /\ k' = k + 1
  /\ stdout' = stdout \o <<"Comment", "Sentiment">>
  /\ trace' = Append(trace, pc)
  /\ Step(IF k + 1 < Len(test_comments) THEN "demo" ELSE "import")
  /\ UNCHANGED <<splitVars, X_train_tfidf, X_test_tfidf, model, evalVars, envVars, fs>>

\* An exception raised inside the try block (lines 136-151): the except
\* clause decides whether it is caught; caught, the two lines of the note are
\* printed and the script ends.
RaiseInTry(exc) ==
  IF ExceptImportError(exc)
    THEN /\ pc' = "done"
         /\ raised' = [exc |-> exc, at |-> pc]
         /\ stdout' = stdout \o <<"Note: skl2onnx not installed", "pip install skl2onnx onnxmltools">>
    ELSE /\ Uncaught(exc)
         /\ UNCHANGED stdout

\* Lines 137-138: the two imports from skl2onnx.
Import ==
  /\ pc = "import"
  /\ trace' = Append(trace, pc)
  /\ IF skl2onnx_installed
       THEN /\ Step("convert")
            /\ UNCHANGED stdout
       ELSE RaiseInTry("ImportError")
  /\ UNCHANGED <<splitVars, fitVars, evalVars, demoVars, envVars, fs>>

\* Lines 141-144: convert_sklearn(model, initial_types=...) may reject the model.
Convert ==
  /\ pc = "convert"
  /\ trace' = Append(trace, pc)
  /\ \E converts \in BOOLEAN :
       IF converts
         THEN /\ Step("open")
              /\ UNCHANGED stdout
         ELSE RaiseInTry("RuntimeError")
  /\ UNCHANGED <<splitVars, fitVars, evalVars, demoVars, envVars, fs>>

\* Line 147: open("sentiment_model.onnx", "wb") creates or empties the file.
Open ==
  /\ pc = "open"
  /\ trace' = Append(trace, pc)
  /\ \E opens \in BOOLEAN :
       IF opens
         THEN /\ fs' = [fs EXCEPT ![MODEL_ONNX] = "truncated"]
              /\ Step("write")
              /\ UNCHANGED stdout
         ELSE /\ RaiseInTry("OSError")
              /\ UNCHANGED fs
  /\ UNCHANGED <<splitVars, fitVars, evalVars, demoVars, envVars>>

\* Lines 148-151: f.write(onnx_model.SerializeToString()), the file is
\* closed, the two messages are printed.
Write ==
  /\ pc = "write"
  /\ trace' = Append(trace, pc)
  /\ \E writes \in BOOLEAN :
       IF writes
         THEN /\ fs' = [fs EXCEPT ![MODEL_ONNX] = "onnx"]
              /\ Step("done")
              /\ stdout' = stdout \o <<"ONNX model saved", "ML.NET note">>
         ELSE /\ RaiseInTry("OSError")
              /\ UNCHANGED fs
  /\ UNCHANGED <<splitVars, fitVars, evalVars, demoVars, envVars>>

Next ==
  \/ Split
  \/ FitTransform
  \/ TransformTest
  \/ Fit
  \/ Predict
  \/ Accuracy
  \/ Report
  \/ Confusion
  \/ DumpModel
  \/ DumpVectorizer
  \/ Demo
  \/ Import
  \/ Convert
  \/ Open
  \/ Write

Spec == Init /\ [][Next]_vars

\* The split alone, over every choice of n_test test rows.
InitSplit ==
  /\ InitRun
  /\ fs_before = [f \in Files |-> "absent"]
  /\ fs = fs_before
  /\ skl2onnx_installed = FALSE

SplitAny ==
  /\ pc = "split"
  /\ \E s \in IncreasingRows(n_test, n_samples) :
       LET ind_test == {s[j] : j \in 1 .. n_test}
       IN  SplitInto(ind_test, RowIndex \ ind_test)

SpecSplit == InitSplit /\ [][SplitAny]_vars

(* ------------------------- derived notions ----------------------------- *)

Final == pc \in {"done", "failed"}

Executed(stmt) == \E i \in 1 .. Len(trace) : trace[i] = stmt

\* The statement ran to its end: it was executed and raised nothing.
Completed(stmt) == Executed(stmt) /\ raised.at # stmt

\* The statements of the script in the order of the file, the loop body once
\* per demo comment.
ProgramOrder ==
  <<"split", "fit_transform", "transform", "fit", "predict", "accuracy", "report",
    "confusion", "dump_model", "dump_vectorizer">>
  \o [i \in 1 .. Len(test_comments) |-> "demo"]
  \o <<"import", "convert", "open", "write">>

IsPrefix(s, t) == Len(s) <= Len(t) /\ \A i \in 1 .. Len(s) : s[i] = t[i]

TermsOf(docs) == UNION {WordNgrams(docs[i]) : i \in DOMAIN docs}

DemoTerms == UNION {WordNgrams(test_comments[i]) : i \in 1 .. Len(test_comments)}

FitCalls == {i \in 1 .. Len(vectorizer.calls) : vectorizer.calls[i] = "fit_transform"}

ClassCount(y, c) == Cardinality({i \in DOMAIN y : y[i] = c})

(* ------------------------------ claims --------------------------------- *)

\* C1: when skl2onnx cannot be imported, the export step does not fail the
\* run: the ImportError raised by the import is caught, the two lines of the
\* note are the last output, the run ends normally, and both pickles were
\* already written by this run.
C1_MissingConverterIsRecovered ==
  (~skl2onnx_installed /\ Executed("import")) =>
    /\ pc = "done"
    /\ raised = [exc |-> "ImportError", at |-> "import"]
    /\ Len(stdout) >= 2
    /\ SubSeq(stdout, Len(stdout) - 1, Len(stdout))
         = <<"Note: skl2onnx not installed", "pip install skl2onnx onnxmltools">>
    /\ fs[MODEL_PKL] = "model"
    /\ fs[VECTORIZER_PKL] = "vectorizer"
    /\ fs[MODEL_ONNX] = fs_before[MODEL_ONNX]

C1_Witness ==
  /\ ~skl2onnx_installed
  /\ pc = "done"
  /\ raised.exc = "ImportError"
  /\ fs_before[MODEL_PKL] = "absent"

\* C2: an exception other than ImportError ends the run at the statement
\* that raised it: the run is failed, the statements executed are an initial
\* part of the script with the raising statement last (none later, none
\* twice), and the files written before it still hold what this run put
\* there.
C2_OtherFailuresEndTheRun ==
  (raised.exc \notin {"none", "ImportError"}) =>
    /\ pc = "failed"
    /\ trace # <<>>
    /\ raised.at = trace[Len(trace)]
    /\ IsPrefix(trace, ProgramOrder)
    /\ (Executed("dump_model") /\ raised.at # "dump_model") => fs[MODEL_PKL] = "model"
    /\ (Executed("dump_vectorizer") /\ raised.at # "dump_vectorizer")
         => fs[VECTORIZER_PKL] = "vectorizer"
    /\ (raised.at = "write") => fs[MODEL_ONNX] = "truncated"

C2_Witness ==
  /\ pc = "failed"
  /\ raised = [exc |-> "RuntimeError", at |-> "convert"]
  /\ fs[MODEL_PKL] = "model"
  /\ fs[VECTORIZER_PKL] = "vectorizer"
  /\ fs_before[MODEL_PKL] = "old"

\* C3: the vectorizer is fitted at most once, by the first call made on it,
\* on the training texts; every later call is transform; once fitted its
\* vocabulary holds only terms of the training texts (none that occurs only
\* in test or demo texts) and no step changes it.
C3_VectorizerState ==
  /\ Cardinality(FitCalls) <= 1
  /\ \A i \in 1 .. Len(vectorizer.calls) :
       vectorizer.calls[i] = (IF i = 1 THEN "fit_transform" ELSE "transform")
  /\ vectorizer.fitted <=> vectorizer.calls # <<>>
  /\ vectorizer.fitted =>
       LET train_terms == TermsOf(X_train)
       IN  /\ vectorizer.fit_docs = X_train
           /\ vectorizer.vocabulary \subseteq train_terms
           /\ vectorizer.vocabulary \cap ((TermsOf(X_test) \cup DemoTerms) \ train_terms) = {}

\* C3: in every state the vectorizer is as C3_VectorizerState says, and no
\* step changes the vocabulary of a fitted vectorizer.
C3_FittedOnceOnTrain ==
  /\ []C3_VectorizerState
  /\ [][vectorizer.fitted => vectorizer'.vocabulary = vectorizer.vocabulary]_vars

C3_Witness ==
  /\ k = Len(test_comments)
  /\ Len(vectorizer.calls) = 2 + Len(test_comments)
  /\ TermsOf(X_test) \ TermsOf(X_train) # {}
  /\ DemoTerms \ TermsOf(X_train) # {}
  /\ vectorizer.vocabulary # {}

\* C4: after the split, train and test rows are disjoint and together are
\* the 30 rows, 6 of them test and 24 training (test share 2/10), and each
\* text is in its subset with the label it has in training_data.
C4_SplitPartitions ==
  (pc # "split") =>
    /\ DOMAIN X_train \cap DOMAIN X_test = {}
    /\ DOMAIN X_train \cup DOMAIN X_test = RowIndex
    /\ DOMAIN y_train = DOMAIN X_train
    /\ DOMAIN y_test = DOMAIN X_test
    /\ Cardinality(DOMAIN X_test) = 6
    /\ Cardinality(DOMAIN X_train) = 24
    /\ 10 * Cardinality(DOMAIN X_test) = test_size_tenths * n_samples
    /\ \A i \in DOMAIN X_train : <<X_train[i], y_train[i]>> = training_data[i + 1]
    /\ \A i \in DOMAIN X_test : <<X_test[i], y_test[i]>> = training_data[i + 1]

C4_Witness ==
  /\ pc # "split"
  /\ ClassCount(y_test, 0) = 2
  /\ ClassCount(y_test, 1) = 4

\* C6: whenever the evaluation has reported the accuracy and is over, the
\* printed confusion matrix has the cells [0][0] and [1][1] and the accuracy
\* is their sum over the number of test rows.
C6_AccuracyIsMatrixDiagonal ==
  (accuracy # <<>> /\ pc \notin {"report", "confusion"}) =>
    /\ cm # <<>>
    /\ {0, 1} \subseteq DOMAIN cm
    /\ accuracy.correct = cm[0][0] + cm[1][1]
    /\ accuracy.total = Cardinality(DOMAIN y_test)

\* C7: once the predictions are made and the evaluation is over, the
\* confusion matrix is a 2x2 grid, cell [t][p] the number of test rows of
\* true class t predicted p, and the four cells sum to the test rows.
C7_MatrixIsTwoByTwo ==
  (Executed("predict") /\ pc \notin {"accuracy", "report", "confusion"}) =>
    /\ cm # <<>>
    /\ DOMAIN cm = {0, 1}
    /\ \A t \in {0, 1} : DOMAIN cm[t] = {0, 1}
    /\ \A t \in {0, 1} : \A p \in {0, 1} :
         cm[t][p] = Cardinality({r \in DOMAIN y_test : y_test[r] = t /\ y_pred[r] = p})
    /\ cm[0][0] + cm[0][1] + cm[1][0] + cm[1][1] = Cardinality(DOMAIN y_test)

\* C8 as stated: after each demo comment the sentiment is "Positive" exactly
\* when the prediction is 1, the confidence is 100 times the probability of
\* the predicted class, and it is above 50% and at most 100%.
C8_ConfidenceAboveHalf ==
  (k > 0) =>
    /\ sentiment = (IF prediction = 1 THEN "Positive" ELSE "Negative")
    /\ confidence = probability[prediction] * 100
    /\ confidence > 50 * ProbUnit
    /\ confidence <= 100 * ProbUnit

\* C8 as amended: the same, with the confidence at least 50% and at most
\* 100%, and exactly 50% when the two class probabilities are equal.
C8_ConfidenceAtLeastHalf ==
  (k > 0) =>
    /\ sentiment \in {"Positive", "Negative"}
    /\ sentiment = "Positive" <=> prediction = 1
    /\ probability[0] + probability[1] = ProbUnit
    /\ confidence = probability[prediction] * 100
    /\ confidence >= probability[1 - prediction] * 100
    /\ confidence >= 50 * ProbUnit
    /\ confidence <= 100 * ProbUnit
    /\ (probability[0] = probability[1]) => confidence = 50 * ProbUnit

C8_Witness ==
  /\ k = Len(test_comments)
  /\ probability[0] = probability[1]
  /\ sentiment = "Negative"
  /\ confidence = 50 * ProbUnit

\* C9 as stated: a run that ended without a successful export left
\* sentiment_model.onnx as it found it, and a run that ended after reaching
\* the persistence stage overwrote both pickles.
C9_OnnxOnlyOnSuccess ==
  Final =>
    /\ ~(pc = "done" /\ raised = NoException) => fs[MODEL_ONNX] = fs_before[MODEL_ONNX]
    /\ Executed("dump_model") => (fs[MODEL_PKL] = "model" /\ fs[VECTORIZER_PKL] = "vectorizer")

\* C9 as amended: sentiment_model.onnx differs from what the run found only
\* if open() succeeded; it is then the complete export if the write
\* completed and a truncated file if the write failed.  Each pickle holds
\* this run's object once its joblib.dump completed, whatever was there
\* before; a dump that fails leaves the file as found or truncated, and the
\* vectorizer pickle untouched if the model dump failed.
C9_FilesAfterRun ==
  /\ ~Completed("open") => fs[MODEL_ONNX] = fs_before[MODEL_ONNX]
  /\ (Completed("open") /\ ~Completed("write")) => fs[MODEL_ONNX] = "truncated"
  /\ Completed("write") => (fs[MODEL_ONNX] = "onnx" /\ pc = "done")
  /\ Completed("dump_model") => fs[MODEL_PKL] = "model"
  /\ Completed("dump_vectorizer") => fs[VECTORIZER_PKL] = "vectorizer"
  /\ ~Completed("dump_model") => fs[MODEL_PKL] \in {fs_before[MODEL_PKL], "truncated"}
  /\ ~Completed("dump_vectorizer") =>
       fs[VECTORIZER_PKL] \in {fs_before[VECTORIZER_PKL], "truncated"}
  /\ ~Completed("dump_model") => fs[VECTORIZER_PKL] = fs_before[VECTORIZER_PKL]

C9_Witness ==
  /\ pc = "failed"
  /\ raised = [exc |-> "OSError", at |-> "write"]
  /\ fs_before = [f \in Files |-> "old"]
  /\ fs[MODEL_ONNX] = "truncated"
  /\ fs[MODEL_PKL] = "model"
  /\ fs[VECTORIZER_PKL] = "vectorizer"

\* C10: after any split, each class has at least 9 of its 15 examples among
\* the 24 training rows, so y_train, which model.fit receives unchanged,
\* holds both classes.
C10_BothClassesInTraining ==
  (pc # "split") =>
    /\ \A c \in Labels : ClassCount(y_train, c) >= 9
    /\ {y_train[i] : i \in DOMAIN y_train} = Labels
    /\ ClassCount(df_label, 0) = 15
    /\ ClassCount(df_label, 1) = 15

C10_Witness ==
  /\ pc # "split"
  /\ ClassCount(y_test, 1) = n_test
  /\ ClassCount(y_train, 1) = 9


====
